---------------------------- MODULE Spec2Model ----------------------------
(***************************************************************************)
(* preserveorder.js: merge an array of arrays of strings into one array    *)
(* without duplicates that keeps the order of every input array.           *)
(*                                                                         *)
(* The model follows preserveOrder(input) step by step:                    *)
(*   getMasterRules: input.forEach(updateRules), then the merge pass over  *)
(*   Object.keys(rules) / Object.keys(rules[rule]);                       *)
(*   the collection of uniq; sorted.sort(sortByRules).                     *)
(*                                                                         *)
(* A JavaScript object used as a table is modelled by the sequence of its  *)
(* own keys in Object.keys order: array-index keys ("1", "2") first, in    *)
(* ascending numeric order, then the other keys in creation order.         *)
(* The labels of the model are ordinary own-property keys; names that a    *)
(* fresh object inherits from Object.prototype are not in the universe.    *)
(***************************************************************************)
EXTENDS Integers, Sequences, FiniteSets, TLC

\* Total number of array slots of a well-formed input.
MaxCells == 6

\* Total number of array slots of an input that need not be well-formed
\* (an empty inner array counts one).
MaxAnyCells == 5

\* Labels that are not array indices: Object.keys lists them in creation order.
Letters == {"a", "b", "c", "d"}

\* Labels that are canonical array indices: Object.keys lists them first, ascending.
IndexLabels == {"1", "2"}

Labels == Letters \cup IndexLabels

\* The label sets an input draws its labels from.
Universes == {Letters, {"1", "2", "a"}}

IndexValue(l) == CASE l = "1" -> 1 [] l = "2" -> 2 [] OTHER -> 0

IsArrayIndex(l) == l \in IndexLabels

Range(s) == {s[p] : p \in 1..Len(s)}

NoObject == [keys |-> <<>>, sub |-> [l \in Labels |-> <<>>]]

-----------------------------------------------------------------------------
\* Variant: the key is recorded again although the object has it.
ObjectSetAgain(keys, k) == Append(keys, k)

(* obj[k] = 1 on the key list of obj.                                      *)
ObjectSet(keys, k) ==
  IF k \in Range(keys) THEN keys
  ELSE IF IsArrayIndex(k)
       THEN LET below == {p \in 1..Len(keys) :
                            /\ IsArrayIndex(keys[p])
                            /\ IndexValue(keys[p]) < IndexValue(k)}
                n == Cardinality(below)
            IN  SubSeq(keys, 1, n) \o <<k>> \o SubSeq(keys, n + 1, Len(keys))
       ELSE Append(keys, k)

\* rules[k] is truthy: k is an own key of rules (its value is an object).
HasRules(tab, k) == k \in Range(tab.keys)

\* rules[a] && rules[a][b]
IsSet(tab, a, b) == HasRules(tab, a) /\ b \in Range(tab.sub[a])

RECURSIVE UpdateInner(_, _, _, _)
\* for (j = ...; j < l; j++) rules[curr][arr[j]] = 1      (j is 1-based here)
UpdateInner(arr, tab, curr, j) ==
  IF j > Len(arr) THEN tab
  ELSE UpdateInner(arr,
                   [tab EXCEPT !.sub[curr] = ObjectSet(@, arr[j])],
                   curr, j + 1)

RECURSIVE UpdateOuterAdjacent(_, _, _)
\* Variant: only the element right after arr[i] is marked.
UpdateOuterAdjacent(arr, tab, i) ==
  IF i > Len(arr) - 1 THEN tab
  ELSE LET curr == arr[i]
           made == IF ~HasRules(tab, curr)
                   THEN [tab EXCEPT !.keys = ObjectSet(@, curr),
                                      !.sub[curr] = <<>>]
                   ELSE tab
       IN  UpdateOuterAdjacent(arr,
                               [made EXCEPT !.sub[curr] = ObjectSet(@, arr[i + 1])],
                               i + 1)

RECURSIVE UpdateOuter(_, _, _)
\* for (i = ...; i < l - 1; i++) { ... }                   (i is 1-based here)
UpdateOuter(arr, tab, i) ==
  IF i > Len(arr) - 1 THEN tab
  ELSE LET curr == arr[i]
           made == IF ~HasRules(tab, curr)
                   THEN [tab EXCEPT !.keys = ObjectSet(@, curr),
                                      !.sub[curr] = <<>>]
                   ELSE tab
       IN  UpdateOuter(arr, UpdateInner(arr, made, curr, i + 1), i + 1)

updateRules(arr, tab) ==
  IF Len(arr) <= 1 THEN tab ELSE UpdateOuter(arr, tab, 1)

RECURSIVE AssignAll(_, _, _)
AssignAll(dst, src, p) ==
  IF p > Len(src) THEN dst ELSE AssignAll(ObjectSet(dst, src[p]), src, p + 1)

\* _.merge(object, source) on two tables whose values are all 1.
Merge(object, source) == AssignAll(object, source, 1)

\* Variant: the merge goes the other way, rules[rule] into rules[key].
MergeIntoKey(tab, rule, key) ==
  IF HasRules(tab, key)
  THEN [tab EXCEPT !.sub[key] = Merge(@, tab.sub[rule])]
  ELSE tab

\* rules[rule] = _.merge(rules[rule], rules[key] || {})
MergeInto(tab, rule, key) ==
  LET source == IF HasRules(tab, key) THEN tab.sub[key] ELSE <<>>
  IN  [tab EXCEPT !.sub[rule] = Merge(@, source)]

\* Variant: the comparator never answers "a > b".
sortByRulesNoGreater(tab, a, b) == IF IsSet(tab, a, b) THEN -1 ELSE 0

\* function sortByRules(a, b)
sortByRules(tab, a, b) ==
  IF IsSet(tab, a, b) THEN -1
  ELSE IF IsSet(tab, b, a) THEN 1
  ELSE 0


-----------------------------------------------------------------------------
(* sorted.sort(sortByRules).  The order Array.prototype.sort produces for  *)
(* a comparator that is not a consistent total order is left to the        *)
(* engine, so the model offers the two algorithms V8 has used for arrays   *)
(* of this size: insertion sort, and TimSort, which for fewer than 64      *)
(* elements is one run detection followed by a binary insertion sort.      *)
Engines == {"InsertionSort", "TimSort"}

RECURSIVE InsertDownOffByOne(_, _, _, _)
\* Variant: the element is stored one place too low.
InsertDownOffByOne(a, element, j, tab) ==
  IF j >= 1 /\ sortByRules(tab, a[j], element) > 0
  THEN InsertDownOffByOne([a EXCEPT ![j + 1] = a[j]], element, j - 1, tab)
  ELSE [a EXCEPT ![IF j >= 1 THEN j ELSE 1] = element]

RECURSIVE InsertDown(_, _, _, _)
\* for (j = i - 1; j >= from; j--) { if (order > 0) a[j+1] = tmp; else break; }
InsertDown(a, element, j, tab) ==
  IF j >= 1 /\ sortByRules(tab, a[j], element) > 0
  THEN InsertDown([a EXCEPT ![j + 1] = a[j]], element, j - 1, tab)
  ELSE [a EXCEPT ![j + 1] = element]

RECURSIVE InsertionSortFrom(_, _, _)
InsertionSortFrom(a, i, tab) ==
  IF i > Len(a) THEN a
  ELSE InsertionSortFrom(InsertDown(a, a[i], i - 1, tab), i + 1, tab)

InsertionSort(a, tab) == InsertionSortFrom(a, 2, tab)

Reverse(s) == [p \in 1..Len(s) |-> s[Len(s) + 1 - p]]

RECURSIVE RunLength(_, _, _, _)
\* the loop of CountAndMakeRun: idx is the 1-based position examined next
RunLength(a, idx, isDescending, tab) ==
  IF idx > Len(a) THEN idx - 1
  ELSE LET order == sortByRules(tab, a[idx], a[idx - 1])
       IN  IF (isDescending /\ order >= 0) \/ (~isDescending /\ order < 0)
           THEN idx - 1
           ELSE RunLength(a, idx + 1, isDescending, tab)

RECURSIVE BinarySearch(_, _, _, _, _)
\* while (left < right) { ... }   left and right are 0-based as in the engine
BinarySearch(a, pivot, left, right, tab) ==
  IF left >= right THEN left
  ELSE LET mid == left + ((right - left) \div 2)
       IN  IF sortByRules(tab, pivot, a[mid + 1]) < 0
           THEN BinarySearch(a, pivot, left, mid, tab)
           ELSE BinarySearch(a, pivot, mid + 1, right, tab)

RECURSIVE BinaryInsertionSort(_, _, _)
\* start is the 0-based index of the next element to insert
BinaryInsertionSort(a, start, tab) ==
  IF start >= Len(a) THEN a
  ELSE LET pivot == a[start + 1]
           left  == BinarySearch(a, pivot, 0, start, tab)
           moved == SubSeq(a, 1, left) \o <<pivot>> \o SubSeq(a, left + 1, start)
                      \o SubSeq(a, start + 2, Len(a))
       IN  BinaryInsertionSort(moved, start + 1, tab)

TimSort(a, tab) ==
  IF Len(a) < 2 THEN a
  ELSE LET isDescending == sortByRules(tab, a[2], a[1]) < 0
           run  == RunLength(a, 3, isDescending, tab)
           made == IF isDescending
                   THEN Reverse(SubSeq(a, 1, run)) \o SubSeq(a, run + 1, Len(a))
                   ELSE a
       IN  BinaryInsertionSort(made, run, tab)

ArraySort(engine, a, tab) ==
  IF engine = "InsertionSort" THEN InsertionSort(a, tab) ELSE TimSort(a, tab)

-----------------------------------------------------------------------------
(* The whole call as functions of the input, composed of the same steps.   *)

RECURSIVE UpdateAll(_, _, _)
\* input.forEach(function (arr) { updateRules(arr, rules); })
UpdateAll(inp, tab, n) ==
  IF n > Len(inp) THEN tab
  ELSE UpdateAll(inp, updateRules(inp[n], tab), n + 1)

RECURSIVE MergeKeys(_, _, _, _)
\* Object.keys(rules[rule]).forEach(...) over the key list taken beforehand
MergeKeys(tab, rule, keys, p) ==
  IF p > Len(keys) THEN tab
  ELSE MergeKeys(MergeInto(tab, rule, keys[p]), rule, keys, p + 1)

RECURSIVE MergeRules(_, _, _)
\* Object.keys(rules).forEach(...) over the key list taken beforehand
MergeRules(tab, keys, p) ==
  IF p > Len(keys) THEN tab
  ELSE MergeRules(MergeKeys(tab, keys[p], tab.sub[keys[p]], 1), keys, p + 1)

getMasterRules(inp) ==
  LET tab == UpdateAll(inp, NoObject, 1)
  IN  MergeRules(tab, tab.keys, 1)

RECURSIVE Flatten(_, _)
Flatten(inp, n) ==
  IF n > Len(inp) THEN <<>> ELSE inp[n] \o Flatten(inp, n + 1)

RECURSIVE FlattenRuled(_, _)
FlattenRuled(inp, m) ==
  IF m > Len(inp) THEN <<>>
  ELSE (IF Len(inp[m]) <= 1 THEN <<>> ELSE inp[m]) \o FlattenRuled(inp, m + 1)

\* Variant: the unique elements are collected where the rules are made, so
\* only from the arrays that give rules.
UniqKeysOfRuled(inp) == AssignAll(<<>>, FlattenRuled(inp, 1), 1)

\* Object.keys(uniq) after uniq[elem] = 1 for every element of every array
UniqKeys(inp) == AssignAll(<<>>, Flatten(inp, 1), 1)

preserveOrder(engine, inp) ==
  ArraySort(engine, UniqKeys(inp), getMasterRules(inp))

-----------------------------------------------------------------------------
(* The inputs.                                                             *)

\* The direct rules of an input: the pairs (arr[i], arr[j]), i < j, of its arrays.
PairsOf(arr) ==
  {<<arr[x[1]], arr[x[2]]>> :
     x \in {y \in (1..Len(arr)) \X (1..Len(arr)) : y[1] < y[2]}}

DirectRules(inp) == UNION {PairsOf(inp[m]) : m \in 1..Len(inp)}

RECURSIVE Through(_, _)
\* R with the pairs that chains through the labels of `mid` add (Warshall).
Through(R, mid) ==
  IF mid = {} THEN R
  ELSE LET k     == CHOOSE x \in mid : TRUE
           above == {x[1] : x \in {y \in R : y[2] = k}}
           below == {x[2] : x \in {y \in R : y[1] = k}}
       IN  Through(R \cup (above \X below), mid \ {k})

\* The transitive closure of a relation given as a set of pairs.
Closure(R) == Through(R, {x[1] : x \in R} \cap {x[2] : x \in R})

\* "Input will have no conflicts in ordering": no label precedes itself.
Acyclic(inp) == \A x \in Closure(DirectRules(inp)) : x[1] # x[2]

\* The labels of an input, array after array.
Labelled(inp) == Range(Flatten(inp, 1))

\* The program only tests labels for equality and for being an array index,
\* so the letters are interchangeable and an input stands for all its
\* renamings: its letters make their first appearances in alphabetical order.
LetterOrder == <<"a", "b", "c", "d">>

NextLabels(U, inp) ==
  LET used == Cardinality(Labelled(inp) \cap Letters)
  IN  (U \cap IndexLabels) \cup
      {LetterOrder[p] : p \in {q \in 1..Len(LetterOrder) :
                                 q <= used + 1 /\ LetterOrder[q] \in U}}

\* The inputs with one more slot filled: a label added to the last array, a
\* new array of one label, or (not well-formed) a new empty array.
OneMore(U, inp, wellFormed) ==
  LET m == Len(inp)
      longer == IF m = 0 \/ inp[m] = <<>> THEN {}
                ELSE {[inp EXCEPT ![m] = Append(@, x)] :
                        x \in {y \in NextLabels(U, inp) :
                                 wellFormed => y \notin Range(inp[m])}}
      wider  == {Append(inp, <<x>>) : x \in NextLabels(U, inp)}
      hollow == IF wellFormed THEN {} ELSE {Append(inp, <<>>)}
  IN  longer \cup wider \cup hollow

RECURSIVE Grown(_, _, _, _)
\* inp and every input that fills at most `cells` further slots; a well-formed
\* input is non-empty, has no empty array, no duplicate in an array, no cycle.
Grown(U, inp, cells, wellFormed) ==
  {inp} \cup
  (IF cells = 0 THEN {}
   ELSE UNION {Grown(U, more, cells - 1, wellFormed) :
                 more \in {x \in OneMore(U, inp, wellFormed) :
                             wellFormed => Acyclic(x)}})

ValidInputs ==
  UNION {Grown(U, <<>>, MaxCells, TRUE) : U \in Universes} \ {<<>>}

AnyInputs ==
  UNION {Grown(U, <<>>, MaxAnyCells, FALSE) : U \in Universes}

-----------------------------------------------------------------------------
(* preserveOrder(input), one step at a time.                               *)
VARIABLES
  input,     \* the argument of preserveOrder
  pc,        \* "update", "outer", "inner", "sort", "done"
  rules,     \* var rules of getMasterRules
  n,         \* the next array input.forEach hands to updateRules (1-based)
  ruleQ,     \* the keys of Object.keys(rules) still to visit
  rule,      \* the key the outer callback is visiting
  keyQ,      \* the keys of Object.keys(rules[rule]) still to visit
  uniq,      \* Object.keys(uniq)
  sorted,    \* var sorted, the returned array
  engine,    \* the algorithm the engine's Array.prototype.sort ran
  outerRuns, \* how many times the outer callback of the merge pass has run
  innerRuns, \* how many times the inner callback of the merge pass has run
  due        \* the successors the visited rules had when their turns began

vars == <<input, pc, rules, n, ruleQ, rule, keyQ, uniq, sorted, engine,
          outerRuns, innerRuns, due>>

Start(inputs) ==
  /\ input \in inputs
  /\ pc = "update"
  /\ rules = NoObject
  /\ n = 1
  /\ ruleQ = <<>>
  /\ rule = ""
  /\ keyQ = <<>>
  /\ uniq = <<>>
  /\ sorted = <<>>
  /\ engine = ""
  /\ outerRuns = 0
  /\ innerRuns = 0
  /\ due = 0

Init == Start(ValidInputs)

InitAny == Start(AnyInputs)

\* The conditions under which each step of the call is taken.
MoreArrays == pc = "update" /\ n <= Len(input)

ArraysDone == pc = "update" /\ n > Len(input)

MoreRules == pc = "outer" /\ ruleQ # <<>>

RulesDone == pc = "outer" /\ ruleQ = <<>>

MoreKeys == pc = "inner" /\ keyQ # <<>>

Sorting == pc = "sort"

\* One callback of input.forEach: updateRules(arr, rules).
Update ==
  /\ MoreArrays
  /\ rules' = updateRules(input[n], rules)
  /\ n' = n + 1
  /\ UNCHANGED <<input, pc, ruleQ, rule, keyQ, uniq, sorted, engine,
                 outerRuns, innerRuns, due>>

\* Object.keys(rules) is taken once, before the merge pass.
TakeRuleKeys ==
  /\ ArraysDone
  /\ ruleQ' = rules.keys
  /\ pc' = "outer"
  /\ UNCHANGED <<input, rules, n, rule, keyQ, uniq, sorted, engine,
                 outerRuns, innerRuns, due>>

\* The outer callback starts on a rule: Object.keys(rules[rule]) is taken once.
NextRule ==
  /\ MoreRules
  /\ rule' = Head(ruleQ)
  /\ ruleQ' = Tail(ruleQ)
  /\ keyQ' = rules.sub[Head(ruleQ)]
  /\ pc' = IF rules.sub[Head(ruleQ)] = <<>> THEN "outer" ELSE "inner"
  /\ outerRuns' = outerRuns + 1
  /\ due' = due + Len(rules.sub[Head(ruleQ)])
  /\ UNCHANGED <<input, rules, n, uniq, sorted, engine, innerRuns>>

\* Variant: the keys the callback added to rules[rule] are visited too.
RestOfKeysLive(keys, before, after) ==
  Tail(keys) \o SelectSeq(after, LAMBDA k : k \notin Range(before))

\* The keys the inner forEach still has to visit after the callback on
\* Head(keys): it walks the array Object.keys returned, whatever the callback
\* did to the table (before and after are rules[rule] around the callback).
RestOfKeys(keys, before, after) == Tail(keys)

\* One inner callback: rules[rule] = _.merge(rules[rule], rules[key] || {}).
MergeKey ==
  /\ MoreKeys
  /\ rules' = MergeInto(rules, rule, Head(keyQ))
  /\ keyQ' = RestOfKeys(keyQ, rules.sub[rule], rules'.sub[rule])
  /\ pc' = IF keyQ' = <<>> THEN "outer" ELSE "inner"
  /\ innerRuns' = innerRuns + 1
  /\ UNCHANGED <<input, n, ruleQ, rule, uniq, sorted, engine, outerRuns, due>>

\* getMasterRules returns; the unique elements are collected.
CollectUniq ==
  /\ RulesDone
  /\ uniq' = UniqKeys(input)
  /\ pc' = "sort"
  /\ UNCHANGED <<input, rules, n, ruleQ, rule, keyQ, sorted, engine,
                 outerRuns, innerRuns, due>>

\* sorted.sort(sortByRules); return sorted.
Sort ==
  /\ Sorting
  /\ engine' \in Engines
  /\ sorted' = ArraySort(engine', uniq, rules)
  /\ pc' = "done"
  /\ UNCHANGED <<input, rules, n, ruleQ, rule, keyQ, uniq,
                 outerRuns, innerRuns, due>>

Next == Update \/ TakeRuleKeys \/ NextRule \/ MergeKey \/ CollectUniq \/ Sort

\* Well-formed inputs (the Assumptions of the source, orphans allowed).
Spec == Init /\ [][Next]_vars

\* Every input, malformed ones included.
SpecAny == InitAny /\ [][Next]_vars

-----------------------------------------------------------------------------
(* Vocabulary of the properties.                                           *)

\* The pairs (A, B) for which rules[A][B] is set.
PairSet(tab) ==
  UNION {{<<A, B>> : B \in Range(tab.sub[A])} : A \in Range(tab.keys)}

\* The true transitive closure of the direct rules of the input.
TrueClosure == Closure(DirectRules(input))

\* A occurs before B in the array out.
Before(out, A, B) ==
  \E p, q \in 1..Len(out) : p < q /\ out[p] = A /\ out[q] = B

\* out holds every rule of R.
Honours(out, R) == \A x \in R : Before(out, x[1], x[2])

\* out holds exactly the labels of S, each once.
ExactlyOnce(out, S) == Range(out) = S /\ Len(out) = Cardinality(S)

\* The direct rules relate every two distinct labels of the input.
DirectlyTotal(inp) ==
  \A A, B \in Labelled(inp) :
    A # B => <<A, B>> \in DirectRules(inp) \/ <<B, A>> \in DirectRules(inp)

\* The direct rules determine one total order of the labels of the input.
Determined(inp) ==
  \A A, B \in Labelled(inp) :
    A # B => <<A, B>> \in Closure(DirectRules(inp))
               \/ <<B, A>> \in Closure(DirectRules(inp))

\* The same arrays in every order of the outer list.
Reorderings(inp) ==
  {[m \in 1..Len(inp) |-> inp[f[m]]] : f \in Permutations(1..Len(inp))}

-----------------------------------------------------------------------------
\* C1: order preservation -- for a valid input, for every input sequence and
\* every pair of positions i < j in it, the label at i is before the label at
\* j in the returned array.
C1_OrderPreserved ==
  pc = "done" => Honours(sorted, DirectRules(input))


C4_TransitivelyClosed ==
  pc \in {"sort", "done"} =>
    \A A, B, C \in Labels :
      IsSet(rules, A, B) /\ IsSet(rules, B, C) => IsSet(rules, A, C)

\* C5: when the direct rules of a valid input determine one total order of
\* the labels, the returned array is that order.
C5_DeterminedOrderReturned ==
  (pc = "done" /\ Determined(input)) =>
    \A p, q \in 1..Len(sorted) :
      p < q => <<sorted[p], sorted[q]>> \in TrueClosure


C7_UpdateRulesPairs ==
  [][(pc = "update" /\ n <= Len(input)) =>
       /\ PairSet(rules') = PairSet(rules) \cup PairsOf(input[n])
       /\ (n = 1 /\ Len(input[n]) = Cardinality(Range(input[n]))) =>
            2 * Cardinality(PairSet(rules')) = Len(input[n]) * (Len(input[n]) - 1)
     ]_vars

\* updateRules has run on an array of three labels or more, on a table that
\* held a rule of an earlier array which this array does not give.
C7_Witness ==
  /\ pc = "update"
  /\ n = 3
  /\ Len(input[2]) >= 3
  /\ PairsOf(input[1]) \ PairsOf(input[2]) # {}
  /\ PairSet(rules) = PairsOf(input[1]) \cup PairsOf(input[2])

\* C8: updateRules leaves the table unchanged for an array of one label, and
\* that label is in the returned array exactly once.
C8_Singletons ==
  /\ [][(pc = "update" /\ n <= Len(input) /\ Len(input[n]) = 1) =>
          rules' = rules]_vars
  /\ [](pc = "done" =>
          \A m \in 1..Len(input) :
            Len(input[m]) = 1 =>
              Cardinality({p \in 1..Len(sorted) : sorted[p] = input[m][1]}) = 1)

\* An array of one label that occurs in no other array, between arrays that
\* give rules, has been through the whole call.
C8_Witness ==
  /\ pc = "done"
  /\ rules.keys # <<>>
  /\ \E m \in 2..(Len(input) - 1) :
       /\ Len(input[m]) = 1
       /\ Len(input[m - 1]) >= 2
       /\ Len(input[m + 1]) >= 2
       /\ \A k \in 1..Len(input) : k # m => input[m][1] \notin Range(input[k])

\* C9: at every step the pairs recorded in rules are pairs of the true
\* transitive closure of the direct rules, the direct rules of the arrays
\* handled so far stay recorded, a merge changes only rules[rule] and only
\* adds to it; so for a valid input no rules[A][A] is set and sortByRules(a, b)
\* and sortByRules(b, a) are never both -1.
C9_Sound ==
  /\ [](/\ PairSet(rules) \subseteq TrueClosure
        /\ DirectRules(SubSeq(input, 1, n - 1)) \subseteq PairSet(rules)
        /\ \A A \in Labelled(input) : ~IsSet(rules, A, A)
        /\ \A A, B \in Labelled(input) :
             ~(sortByRules(rules, A, B) = -1 /\ sortByRules(rules, B, A) = -1))
  /\ [][pc = "inner" =>
          /\ PairSet(rules) \subseteq PairSet(rules')
          /\ \A k \in Labels \ {rule} : rules'.sub[k] = rules.sub[k]
          /\ rules'.keys = rules.keys]_vars

\* The merge pass has recorded a pair that no array gives directly.
C9_Witness ==
  /\ pc = "inner"
  /\ innerRuns >= 2
  /\ PairSet(rules) # DirectRules(input)
  /\ \E x \in PairSet(rules) \ DirectRules(input) : x[1] # rule

\* An upper bound on the number of steps the call still takes: a rule still
\* to visit costs its own step and at most one step for each label.
StepsLeft ==
  LET B == Cardinality(Labels) + 1
  IN  CASE pc = "update" -> (Len(input) + 1 - n) + B * B + 3
        [] pc \in {"outer", "inner"} -> Len(ruleQ) * B + Len(keyQ) + 2
        [] pc = "sort" -> 1
        [] OTHER -> 0

\* Some step of the call can be taken.
Running ==
  MoreArrays \/ ArraysDone \/ MoreRules \/ RulesDone \/ MoreKeys \/ Sorting

\* C10: the merge pass ends for every input, cyclic and contradictory ones
\* included: the call is never stuck before it returns and every step lowers
\* a bound on the steps left; the outer callback runs once per key that has
\* direct rules and the inner callback once per successor the rule had when
\* its turn began.
C10_Terminates ==
  /\ [](StepsLeft \in Nat /\ (pc = "done" \/ Running))
  /\ [][StepsLeft' < StepsLeft]_vars
  /\ [](pc \in {"sort", "done"} =>
          /\ outerRuns = Cardinality({x[1] : x \in DirectRules(input)})
          /\ innerRuns = due)

\* A cyclic input whose pass added successors to a rule during its turn.
C10_Witness ==
  /\ pc = "done"
  /\ ~Acyclic(input)
  /\ innerRuns >= 2
  /\ PairSet(rules) # DirectRules(input)

=============================================================================
